---- MODULE Spec2Model ----
(***************************************************************************)
(* The two lunar-lander programs of the repository, simulator.py and       *)
(* o3-mini-high_attempt.py, as state machines.  Each program is one frame  *)
(* loop; a behaviour runs one of them (prog).  A frame has two steps: the  *)
(* event/reset step at the top of the loop body and the update step (key   *)
(* handling, integration, landing evaluation).                             *)
(*                                                                         *)
(* Real numbers are fixed-point integers, Scale units to one pixel,        *)
(* degree or fuel unit.  A product of two such numbers is rounded to the   *)
(* nearest unit (the programs round to the nearest double).                *)
(***************************************************************************)
EXTENDS Integers, Sequences, FiniteSets, TLC

VARIABLES prog, pc, frame, event, keys, sim, o3, plan

vars == <<prog, pc, frame, event, keys, sim, o3, plan>>

\* ------------------------------------------------------------ arithmetic

Scale == 10 * 10 * 10

Fx(n) == n * Scale

Abs(n) == IF n < 0 THEN -n ELSE n

\* n / d rounded to the nearest integer (d > 0)
Round(n, d) == (2 * n + d) \div (2 * d)

Mul(a, b) == Round(a * b, Scale)

\* 1000 * sin(d degrees), d = 0 .. 90
SinTable ==
  << 0, 17, 35, 52, 70, 87, 105, 122, 139, 156, 174, 191, 208, 225, 242, 259,
     276, 292, 309, 326, 342, 358, 375, 391, 407, 423, 438, 454, 469, 485, 500,
     515, 530, 545, 559, 574, 588, 602, 616, 629, 643, 656, 669, 682, 695, 707,
     719, 731, 743, 755, 766, 777, 788, 799, 809, 819, 829, 839, 848, 857, 866,
     875, 883, 891, 899, 906, 914, 921, 927, 934, 940, 946, 951, 956, 961, 966,
     970, 974, 978, 982, 985, 988, 990, 993, 995, 996, 998, 999, 999, 1000,
     1000 >>

\* sin of a whole number of degrees, any sign
SinDeg(d) ==
  LET m == d % 360
  IN  IF m <= 90 THEN SinTable[m + 1]
      ELSE IF m <= 180 THEN SinTable[180 - m + 1]
      ELSE IF m <= 270 THEN -SinTable[m - 180 + 1]
      ELSE -SinTable[360 - m + 1]

\* math.sin(math.radians(a)), a in fixed-point degrees: the table, interpolated
Sin(a) ==
  LET d == a \div Scale
      f == a % Scale
  IN  SinDeg(d) + Round((SinDeg(d + 1) - SinDeg(d)) * f, Scale)

\* math.cos(math.radians(a))
Cos(a) == Sin(a + Fx(90))

\* the largest r in lo .. hi with r * r <= n  (lo * lo <= n)
RECURSIVE SqrtIn(_, _, _)
SqrtIn(n, lo, hi) ==
  IF lo >= hi THEN lo
  ELSE LET mid == (lo + hi + 1) \div 2
       IN  IF mid * mid <= n THEN SqrtIn(n, mid, hi) ELSE SqrtIn(n, lo, mid - 1)

\* ------------------------------------------------------------ inputs

NoKeys == [left |-> FALSE, right |-> FALSE, up |-> FALSE, space |-> FALSE]

\* pygame.key.get_pressed() in o3-mini-high_attempt.py: the four keys it reads
O3KeyStates == [left : BOOLEAN, right : BOOLEAN, up : BOOLEAN, space : BOOLEAN]

\* pygame.key.get_pressed() in simulator.py: the three keys it reads
SimKeyStates == [left : BOOLEAN, right : BOOLEAN, up : BOOLEAN, space : {FALSE}]

\* the KEYDOWN event of a frame of simulator.py, if any
SimEvents == {"NONE", "K_SPACE", "K_RETURN"}

\* ------------------------------------------------------------ simulator.py

WIDTH == 800
HEIGHT == 600
ROCKET_SIZE == 20
SIM_GROUND_HEIGHT == 50
\* 0.03
SIM_GRAVITY == 30
SPEED_THRESHOLD == 2
ANGLE_THRESHOLD == 10
\* the 0.1 of the thrust lines
SIM_THRUST == 100
\* 0.5
fuel_rate == 500
FULL_FUEL == 100

\* the rocket attributes and the landing status as the module sets them
SimStart ==
  [ rocket_x |-> 0, rocket_y |-> 0, rocket_angle |-> 0,
    rocket_velocity_x |-> 0, rocket_velocity_y |-> 0, angular_velocity |-> 0,
    fuel |-> Fx(FULL_FUEL), landing_status |-> "None" ]

\* a reset that forgets to refill the tank
SimHandleEventKeepsFuel(s, ev) ==
  IF ev = "K_SPACE" \/ ev = "K_RETURN"
  THEN [ s EXCEPT !.landing_status = "None",
                  !.rocket_x = 0, !.rocket_y = 0,
                  !.rocket_velocity_x = 0, !.rocket_velocity_y = 0,
                  !.angular_velocity = 0, !.rocket_angle = 0 ]
  ELSE s

\* the KEYDOWN branch: SPACE or RETURN resets, on any frame
SimHandleEvent(s, ev) ==
  IF ev = "K_SPACE" \/ ev = "K_RETURN"
  THEN [ s EXCEPT !.landing_status = "None",
                  !.rocket_x = 0, !.rocket_y = 0,
                  !.rocket_velocity_x = 0, !.rocket_velocity_y = 0,
                  !.angular_velocity = 0, !.rocket_angle = 0,
                  !.fuel = Fx(FULL_FUEL) ]
  ELSE s

\* a fuel guard that lets the last tick overdraw the tank
SimThrustingAtZero(s, k) == k.up /\ s.fuel >= 0

\* thrust with no fuel guard at all
SimThrustingUnfuelled(s, k) == k.up

\* whether the thrust branch is taken
SimThrusting(s, k) == k.up /\ s.fuel > 0

\* the key handling: it is outside the landing_status guard
SimKeys(s, k) ==
  LET a == s.rocket_angle + (IF k.left THEN Fx(1) ELSE 0)
                          - (IF k.right THEN Fx(1) ELSE 0)
  IN  IF SimThrusting(s, k)
      THEN [ s EXCEPT !.rocket_angle = a,
                      !.rocket_velocity_y = @ + Mul(-SIM_THRUST, Cos(a)),
                      !.rocket_velocity_x = @ + Mul(-SIM_THRUST, Sin(a)),
                      !.fuel = @ - fuel_rate ]
      ELSE [ s EXCEPT !.rocket_angle = a ]

\* math.sqrt(vy*vy + vx*vx) > SPEED_THRESHOLD, compared on the squares
SimTooFast(s) ==
  s.rocket_velocity_y * s.rocket_velocity_y
    + s.rocket_velocity_x * s.rocket_velocity_x
  > Fx(SPEED_THRESHOLD) * Fx(SPEED_THRESHOLD)

SimTilted(s) == Abs(s.rocket_angle) > Fx(ANGLE_THRESHOLD)

SimOnGround(s) == s.rocket_y + Fx(ROCKET_SIZE) >= Fx(HEIGHT - SIM_GROUND_HEIGHT)

\* the ground collision with the angle test first
SimClassifyAngleFirst(s) ==
  IF SimTilted(s) THEN "crashed (angle)"
  ELSE IF SimTooFast(s) THEN "crashed (speed)"
  ELSE "landed!"

\* the if / elif / else of the ground collision
SimClassify(s) ==
  IF SimTooFast(s) THEN "crashed (speed)"
  ELSE IF SimTilted(s) THEN "crashed (angle)"
  ELSE "landed!"

\* the physics block run on every frame, without the landing_status guard
SimPhysicsUnguarded(s) ==
  LET vy == s.rocket_velocity_y + SIM_GRAVITY
      m  == [ s EXCEPT !.rocket_velocity_y = vy,
                       !.rocket_x = @ + s.rocket_velocity_x,
                       !.rocket_y = @ + vy,
                       !.rocket_angle = @ + s.angular_velocity ]
  IN  IF SimOnGround(m)
      THEN [ m EXCEPT !.landing_status = SimClassify(m) ]
      ELSE m

\* the translation done before gravity is added: y moves by the old velocity
SimPhysicsStaleVelocity(s) ==
  IF s.landing_status = "None"
  THEN LET vy == s.rocket_velocity_y + SIM_GRAVITY
           m  == [ s EXCEPT !.rocket_velocity_y = vy,
                            !.rocket_x = @ + s.rocket_velocity_x,
                            !.rocket_y = @ + s.rocket_velocity_y,
                            !.rocket_angle = @ + s.angular_velocity ]
       IN  IF SimOnGround(m)
           THEN [ m EXCEPT !.landing_status = SimClassify(m) ]
           ELSE m
  ELSE s

\* gravity, translation and the ground check, under "if landing_status is None"
SimPhysics(s) ==
  IF s.landing_status = "None"
  THEN LET vy == s.rocket_velocity_y + SIM_GRAVITY
           m  == [ s EXCEPT !.rocket_velocity_y = vy,
                            !.rocket_x = @ + s.rocket_velocity_x,
                            !.rocket_y = @ + vy,
                            !.rocket_angle = @ + s.angular_velocity ]
       IN  IF SimOnGround(m)
           THEN [ m EXCEPT !.landing_status = SimClassify(m) ]
           ELSE m
  ELSE s

\* the part of the loop body after the event loop
SimUpdate(s, k) == SimPhysics(SimKeys(s, k))

\* one whole frame
SimFrame(s, ev, k) == SimUpdate(SimHandleEvent(s, ev), k)

\* n frames with the same keys held and no event (by halves, the state half
\* way bound as a value, which keeps the evaluation shallow)
RECURSIVE SimRun(_, _, _)
SimRun(s, k, n) ==
  IF n = 0 THEN s
  ELSE IF n = 1 THEN SimFrame(s, "NONE", k)
  ELSE CHOOSE r \in { SimRun(t, k, n - n \div 2) : t \in { SimRun(s, k, n \div 2) } } : TRUE

\* a schedule is a sequence of <<keys held, number of frames>>
RECURSIVE SimAfter(_, _)
SimAfter(s, sched) ==
  IF sched = << >> THEN s
  ELSE SimAfter(SimRun(s, Head(sched)[1], Head(sched)[2]), Tail(sched))

\* ------------------------------------------------------------ o3-mini-high_attempt.py

\* 0.05
O3_GRAVITY == 50
\* 0.15
THRUST == 150
\* 0.2
ROTATIONAL_ACCELERATION == 200
\* 0.99
ROTATIONAL_DAMPING == 990
\* 2.0
SAFE_ROTATIONAL_SPEED == 2000
\* 2.5
SAFE_VERTICAL_SPEED == 2500
\* 2.0
SAFE_HORIZONTAL_SPEED == 2000
SAFE_ANGLE == 15
O3_GROUND_HEIGHT == 30
LANDING_PAD_WIDTH == 100
\* the 10 of "landing_pad_y - 10"
CONTACT_OFFSET == 10
\* the 50 of the off-screen test
OFFSCREEN_MARGIN == 50

landing_pad_x == Fx(WIDTH - LANDING_PAD_WIDTH) \div 2
landing_pad_y == Fx(HEIGHT - O3_GROUND_HEIGHT)

MSG_LANDED == "Landed Successfully! Press SPACE to reset."
MSG_CRASHED == "Crashed! Press SPACE to reset."
MSG_OUT == "Crashed! (Out of bounds) Press SPACE to reset."

\* Rocket.__init__
Rocket(pos, vel, angle) ==
  [ x |-> pos[1], y |-> pos[2], vx |-> vel[1], vy |-> vel[2], angle |-> angle,
    rotational_velocity |-> 0, alive |-> TRUE, landed |-> FALSE ]

\* Rocket.update
RocketUpdate(r, k) ==
  IF ~r.alive THEN r
  ELSE LET rv == r.rotational_velocity
                   - (IF k.left THEN ROTATIONAL_ACCELERATION ELSE 0)
                   + (IF k.right THEN ROTATIONAL_ACCELERATION ELSE 0)
           a  == r.angle + rv
           ax == IF k.up THEN Mul(Sin(a), THRUST) ELSE 0
           ay == IF k.up THEN Mul(-Cos(a), THRUST) ELSE 0
           vx == r.vx + ax
           vy == r.vy + ay + O3_GRAVITY
       IN  [ r EXCEPT !.rotational_velocity = Mul(rv, ROTATIONAL_DAMPING),
                      !.angle = a, !.vx = vx, !.vy = vy,
                      !.x = @ + vx, !.y = @ + vy ]

\* math.hypot on whole pixels
Hypot(dx, dy) == SqrtIn(dx * dx + dy * dy, 0, WIDTH + HEIGHT)

\* spawn_rocket; d holds what random draws: the side, the coordinate along the
\* edge (whole pixels) and the speed
spawn_rocket(d) ==
  LET x == IF d.side = 0 THEN 0 ELSE IF d.side = 1 THEN WIDTH ELSE d.u
      y == IF d.side = 0 \/ d.side = 1 THEN d.u ELSE 0
      target_x == WIDTH \div 2
      target_y == landing_pad_y \div Scale
      dx == target_x - x
      dy == target_y - y
      h  == Hypot(dx, dy)
      distance == IF h = 0 THEN 1 ELSE h
      vx == Round(dx * d.speed, distance)
      vy == Round(dy * d.speed, distance)
  IN  Rocket(<<Fx(x), Fx(y)>>, <<vx, vy>>, 0)

\* the draws: side in {0, 1, 2}, 50 <= u <= HEIGHT / 2 on the left and right
\* edges, 50 <= u <= WIDTH - 50 on the top edge, 1 <= speed <= 3; each one
\* gives a whole distance and a velocity that is exact in fixed point
SpawnDraws ==
  { [side |-> 0, u |-> 270, speed |-> 1000], [side |-> 0, u |-> 270, speed |-> 3000],
    [side |-> 1, u |-> 270, speed |-> 2000], [side |-> 0, u |-> 150, speed |-> 2900],
    [side |-> 1, u |-> 150, speed |-> 1450], [side |-> 2, u |-> 400, speed |-> 1000],
    [side |-> 2, u |-> 400, speed |-> 3000], [side |-> 2, u |-> 96, speed |-> 1615],
    [side |-> 2, u |-> 704, speed |-> 1615], [side |-> 2, u |-> 264, speed |-> 1465] }

\* the module state after "rocket = spawn_rocket()", game_over = False, message = ""
O3Start(d) == [ rocket |-> spawn_rocket(d), game_over |-> FALSE, message |-> "" ]

\* what random can draw in a frame: spawn_rocket runs only on a reset
DrawsFor(s, k) ==
  IF s.game_over /\ k.space THEN SpawnDraws ELSE { CHOOSE d \in SpawnDraws : TRUE }

\* a reset that does not ask for game_over
O3ResetAnytime(s, k, d) == IF k.space THEN O3Start(d) ELSE s

\* "if game_over and keys[pygame.K_SPACE]"
O3Reset(s, k, d) == IF s.game_over /\ k.space THEN O3Start(d) ELSE s

\* a pad test that forgets the left end of the pad
InPadSpanRightEnd(r) == r.x <= landing_pad_x + Fx(LANDING_PAD_WIDTH)

InPadSpan(r) == landing_pad_x <= r.x /\ r.x <= landing_pad_x + Fx(LANDING_PAD_WIDTH)

\* safe-landing bounds that exclude the limits themselves
SafeLandingStrict(r) ==
  /\ Abs(r.vy) < SAFE_VERTICAL_SPEED
  /\ Abs(r.vx) < SAFE_HORIZONTAL_SPEED
  /\ Abs(r.angle) < Fx(SAFE_ANGLE)
  /\ Abs(r.rotational_velocity) < SAFE_ROTATIONAL_SPEED

SafeLanding(r) ==
  /\ Abs(r.vy) <= SAFE_VERTICAL_SPEED
  /\ Abs(r.vx) <= SAFE_HORIZONTAL_SPEED
  /\ Abs(r.angle) <= Fx(SAFE_ANGLE)
  /\ Abs(r.rotational_velocity) <= SAFE_ROTATIONAL_SPEED

O3OnGround(r) == r.y >= landing_pad_y - Fx(CONTACT_OFFSET)

OffScreen(r) ==
  \/ r.x < -Fx(OFFSCREEN_MARGIN) \/ r.x > Fx(WIDTH + OFFSCREEN_MARGIN)
  \/ r.y < -Fx(OFFSCREEN_MARGIN) \/ r.y > Fx(HEIGHT + OFFSCREEN_MARGIN)

\* "if rocket.alive and rocket.y >= landing_pad_y - 10"
GroundCheck(s) ==
  IF s.rocket.alive /\ O3OnGround(s.rocket)
  THEN IF InPadSpan(s.rocket) /\ SafeLanding(s.rocket)
       THEN [ s EXCEPT !.message = MSG_LANDED, !.rocket.landed = TRUE,
                       !.rocket.alive = FALSE, !.game_over = TRUE ]
       ELSE [ s EXCEPT !.message = MSG_CRASHED,
                       !.rocket.alive = FALSE, !.game_over = TRUE ]
  ELSE s

\* "if rocket.alive: if rocket.x < -50 or ..."
BoundsCheck(s) ==
  IF s.rocket.alive /\ OffScreen(s.rocket)
  THEN [ s EXCEPT !.message = MSG_OUT, !.rocket.alive = FALSE, !.game_over = TRUE ]
  ELSE s

\* the loop body after the reset: update, ground check, off-screen check
O3Update(s, k) ==
  LET u == IF ~s.game_over THEN [ s EXCEPT !.rocket = RocketUpdate(s.rocket, k) ] ELSE s
  IN  BoundsCheck(GroundCheck(u))

\* one whole frame
O3Frame(s, k, d) == O3Update(O3Reset(s, k, d), k)

\* n frames with the same keys held (no SPACE: the draw is never used)
RECURSIVE O3Run(_, _, _)
O3Run(s, k, n) ==
  IF n = 0 THEN s
  ELSE IF n = 1 THEN O3Frame(s, k, CHOOSE d \in SpawnDraws : TRUE)
  ELSE CHOOSE r \in { O3Run(t, k, n - n \div 2) : t \in { O3Run(s, k, n \div 2) } } : TRUE

RECURSIVE O3After(_, _)
O3After(s, sched) ==
  IF sched = << >> THEN s
  ELSE O3After(O3Run(s, Head(sched)[1], Head(sched)[2]), Tail(sched))

\* ------------------------------------------------------------ the flights checked

Coast == NoKeys
Up == [NoKeys EXCEPT !.up = TRUE]
Left == [NoKeys EXCEPT !.left = TRUE]

\* simulator.py: the launch, and states a fixed key schedule reaches from it
\* (the fall to the ground takes 188 frames): one frame before a crash at full
\* speed, before an upright landing, before a landing tilted by 10 degrees and
\* left of the window, and with the tank just emptied
SimStarts ==
  { SimStart,
    SimAfter(SimStart, << <<Coast, 187>> >>),
    SimAfter(SimStart, << <<Coast, 159>>, <<Up, 49>> >>),
    SimAfter(SimStart, << <<Left, 10>>, <<Coast, 149>>, <<Up, 47>> >>),
    SimAfter(SimStart, << <<Up, 200>> >>) }

\* o3-mini-high_attempt.py: every spawn, and states a fixed key schedule
\* reaches from one: one frame before a safe landing on the pad, before a slow
\* and level contact left of the pad, before a fast contact on the pad, and
\* before leaving the screen at the top
O3Starts ==
  { O3Start(d) : d \in SpawnDraws } \cup
  { O3After(O3Start([side |-> 2, u |-> 400, speed |-> 1000]), << <<Coast, 105>>, <<Up, 44>> >>),
    O3After(O3Start([side |-> 0, u |-> 270, speed |-> 1000]), << <<Coast, 79>>, <<Up, 26>> >>),
    O3After(O3Start([side |-> 2, u |-> 400, speed |-> 3000]), << <<Coast, 100>> >>),
    O3After(O3Start([side |-> 2, u |-> 400, speed |-> 1000]), << <<Up, 42>> >>) }

\* the state of the program a behaviour does not run
O3Idle == O3Start([side |-> 2, u |-> 400, speed |-> 1000])

\* the keys a player holds over a flight: first until frame "until", then
\* "then"; only the held-key flights below follow a plan
NoPlan == [first |-> NoKeys, until |-> 0, then |-> NoKeys]

\* frames explored from a start state, keys and events free
MaxFrames == 2

Init ==
  /\ prog \in {"sim", "o3"}
  /\ pc = "events"
  /\ frame = 0
  /\ event = "NONE"
  /\ keys = NoKeys
  /\ sim \in (IF prog = "sim" THEN SimStarts ELSE {SimStart})
  /\ o3 \in (IF prog = "o3" THEN O3Starts ELSE {O3Idle})
  /\ plan = NoPlan

\* simulator.py, the event loop at the top of the frame
SimEventStep ==
  /\ prog = "sim" /\ pc = "events" /\ frame < MaxFrames
  /\ \E ev \in SimEvents :
       /\ event' = ev
       /\ sim' = SimHandleEvent(sim, ev)
  /\ pc' = "update"
  /\ UNCHANGED <<prog, frame, keys, o3, plan>>

\* simulator.py, the rest of the frame
SimUpdateStep ==
  /\ prog = "sim" /\ pc = "update"
  /\ \E k \in SimKeyStates :
       /\ keys' = k
       /\ sim' = SimUpdate(sim, k)
  /\ pc' = "events"
  /\ frame' = frame + 1
  /\ UNCHANGED <<prog, event, o3, plan>>

\* o3-mini-high_attempt.py, the key sampling and the reset
O3ResetStep ==
  /\ prog = "o3" /\ pc = "events" /\ frame < MaxFrames
  /\ \E k \in O3KeyStates : \E d \in DrawsFor(o3, k) :
       /\ keys' = k
       /\ o3' = O3Reset(o3, k, d)
  /\ pc' = "update"
  /\ UNCHANGED <<prog, frame, event, sim, plan>>

\* o3-mini-high_attempt.py, the rest of the frame
O3UpdateStep ==
  /\ prog = "o3" /\ pc = "update"
  /\ o3' = O3Update(o3, keys)
  /\ pc' = "events"
  /\ frame' = frame + 1
  /\ UNCHANGED <<prog, event, keys, sim, plan>>

Next == SimEventStep \/ SimUpdateStep \/ O3ResetStep \/ O3UpdateStep

Spec == Init /\ [][Next]_vars

\* ------------------------------------------------------------ the tick on a grid

\* The landing evaluators are functions of the state the integrator leaves.
\* This specification starts the frame loop on a grid of flying states next
\* to the ground, laid around the thresholds of the evaluators.

SimAt(x, y, vx, vy, a, f) ==
  [ rocket_x |-> x, rocket_y |-> y, rocket_angle |-> a,
    rocket_velocity_x |-> vx, rocket_velocity_y |-> vy, angular_velocity |-> 0,
    fuel |-> f, landing_status |-> "None" ]

\* speeds and angles on both sides of SPEED_THRESHOLD and ANGLE_THRESHOLD,
\* heights one frame and two frames above the ground line, a full and an
\* empty tank
SimGrid ==
  { SimAt(x, y, vx, vy, a, Fx(FULL_FUEL) \div 2) :
      x \in {-20000, 400000}, y \in {528000, 529970},
      vx \in {0, 1200, 1300}, vy \in {0, 1000, 1570, 1970, 1980, 3000},
      a \in {-11000, -10000, 0, 9000, 10000, 11000} }
  \cup
  { SimAt(400000, y, 0, vy, a, 0) :
      y \in {528000, 529970}, vy \in {1000, 1970, 3000}, a \in {0, 10000} }

O3At(x, y, vx, vy, a, rv) ==
  [ rocket |-> [ x |-> x, y |-> y, vx |-> vx, vy |-> vy, angle |-> a,
                 rotational_velocity |-> rv, alive |-> TRUE, landed |-> FALSE ],
    game_over |-> FALSE, message |-> "" ]

\* positions on both sides of the pad ends, speeds, angles and rotational
\* speeds on both sides of the safe values, heights one frame and two frames
\* above the contact line; the last state meets every bound with equality
O3Grid ==
  { O3At(x, y, vx, vy, 5000, 0) :
      x \in {348000, 349500, 350000, 400000, 450000, 450500}, y \in {558000, 559000},
      vx \in {0, 500, 2000, 2050}, vy \in {1000, 1950, 2450, 2500, 5000} }
  \cup
  { O3At(x, 559000, 500, 1000, a, rv) :
      x \in {349000, 400000},
      a \in {-15000, 5000, 12980, 15000, 15200}, rv \in {0, 2020, 2021} }
  \cup
  { O3At(348000, 558000, 2000, 2450, 12980, 2020) }

InitApproach ==
  /\ prog \in {"sim", "o3"}
  /\ pc = "events"
  /\ frame = 0
  /\ event = "NONE"
  /\ keys = NoKeys
  /\ sim \in (IF prog = "sim" THEN SimGrid ELSE {SimStart})
  /\ o3 \in (IF prog = "o3" THEN O3Grid ELSE {O3Idle})
  /\ plan = NoPlan

SpecApproach == InitApproach /\ [][Next]_vars

\* ------------------------------------------------------------ coasting

\* frames of a coasting flight
MaxCoastFrames == 12

\* rockets of o3-mini-high_attempt.py at rest, 100 pixels below the top
CoastY0 == Fx(100)
O3AtRest ==
  { [ rocket |-> Rocket(<<Fx(50 * i), CoastY0>>, <<0, 0>>, 0),
      game_over |-> FALSE, message |-> "" ] : i \in 1 .. 15 }

InitCoast ==
  /\ prog \in {"sim", "o3"}
  /\ pc = "events"
  /\ frame = 0
  /\ event = "NONE"
  /\ keys = NoKeys
  /\ sim = SimStart
  /\ o3 \in (IF prog = "o3" THEN O3AtRest ELSE {O3Idle})
  /\ plan = NoPlan

\* the keys of a coasting frame: never UP nor SPACE, and the turn keys only
\* in the first MaxFrames frames
CoastKeys ==
  { k \in SimKeyStates : ~k.up /\ (frame >= MaxFrames => k = NoKeys) }

SimCoastEventStep ==
  /\ prog = "sim" /\ pc = "events" /\ frame < MaxCoastFrames
  /\ event' = "NONE"
  /\ sim' = SimHandleEvent(sim, "NONE")
  /\ pc' = "update"
  /\ UNCHANGED <<prog, frame, keys, o3, plan>>

SimCoastUpdateStep ==
  /\ prog = "sim" /\ pc = "update"
  /\ \E k \in CoastKeys :
       /\ keys' = k
       /\ sim' = SimUpdate(sim, k)
  /\ pc' = "events"
  /\ frame' = frame + 1
  /\ UNCHANGED <<prog, event, o3, plan>>

O3CoastResetStep ==
  /\ prog = "o3" /\ pc = "events" /\ frame < MaxCoastFrames
  /\ \E k \in CoastKeys : \E d \in DrawsFor(o3, k) :
       /\ keys' = k
       /\ o3' = O3Reset(o3, k, d)
  /\ pc' = "update"
  /\ UNCHANGED <<prog, frame, event, sim, plan>>

NextCoast == SimCoastEventStep \/ SimCoastUpdateStep \/ O3CoastResetStep \/ O3UpdateStep

SpecCoast == InitCoast /\ [][NextCoast]_vars

\* ------------------------------------------------------------ held-key flights

\* frames of a flight of simulator.py
MaxFlightFrames == 1300

\* the frames at which a player changes keys
SwitchFrames == {0, 60, 150}

Plans == [first : SimKeyStates, until : SwitchFrames, then : SimKeyStates]

\* the keys the plan holds in the current frame
PlanKeys == IF frame < plan.until THEN plan.first ELSE plan.then

InitHold ==
  /\ prog = "sim"
  /\ pc = "events"
  /\ frame = 0
  /\ event = "NONE"
  /\ keys = NoKeys
  /\ sim = SimStart
  /\ o3 = O3Idle
  /\ plan \in Plans

\* simulator.py, a frame without a KEYDOWN event
HoldEventStep ==
  /\ prog = "sim" /\ pc = "events" /\ frame < MaxFlightFrames
  /\ event' = "NONE"
  /\ sim' = SimHandleEvent(sim, "NONE")
  /\ pc' = "update"
  /\ UNCHANGED <<prog, frame, keys, o3, plan>>

\* simulator.py, the rest of the frame with the planned keys held
HoldUpdateStep ==
  /\ prog = "sim" /\ pc = "update"
  /\ keys' = PlanKeys
  /\ sim' = SimUpdate(sim, PlanKeys)
  /\ pc' = "events"
  /\ frame' = frame + 1
  /\ UNCHANGED <<prog, event, o3, plan>>

NextHold == HoldEventStep \/ HoldUpdateStep

\* the frame loop runs on every clock tick
SpecHold == InitHold /\ [][NextHold]_vars /\ WF_vars(NextHold)

\* ------------------------------------------------------------ what the claims speak of

\* position, velocity, angle, angular velocity and fuel of simulator.py
SimKinematics(s) ==
  << s.rocket_x, s.rocket_y, s.rocket_velocity_x, s.rocket_velocity_y,
     s.rocket_angle, s.angular_velocity, s.fuel >>

\* position, velocity, angle and angular velocity of o3-mini-high_attempt.py
O3Kinematics(s) ==
  << s.rocket.x, s.rocket.y, s.rocket.vx, s.rocket.vy, s.rocket.angle,
     s.rocket.rotational_velocity >>

\* the status, the landed flag and the outcome label of o3-mini-high_attempt.py
O3Outcome(s) == << s.rocket.alive, s.rocket.landed, s.game_over, s.message >>

SimTerminal == prog = "sim" /\ sim.landing_status # "None"
O3Terminal == prog = "o3" /\ ~o3.rocket.alive

\* the step taken is the event step of a frame and it carries a reset key
SimResetPressed == prog = "sim" /\ pc = "events" /\ event' \in {"K_SPACE", "K_RETURN"}
O3ResetPressed == prog = "o3" /\ pc = "events" /\ keys'.space

\* C1: once the status is not Flying, a tick without a reset key leaves
\* position, velocity, angle, angular velocity and fuel unchanged, whatever
\* left/right/up keys are held (both programs).
C1_TerminalStickiness ==
  [][ /\ (SimTerminal /\ ~SimResetPressed => SimKinematics(sim') = SimKinematics(sim))
      /\ (O3Terminal /\ ~O3ResetPressed => O3Kinematics(o3') = O3Kinematics(o3)) ]_vars

\* C4 as stated: a reset key pressed while the status is Flying leaves the
\* state as it would be without the key (both programs).
C4_ResetOnlyWhenTerminal ==
  [][ /\ (SimResetPressed /\ ~SimTerminal => sim' = sim)
      /\ (O3ResetPressed /\ ~O3Terminal => o3' = o3) ]_vars

\* C4 as amended: in o3-mini-high_attempt.py the event step changes the state
\* only when SPACE is held while game_over; in simulator.py a SPACE or RETURN
\* key press resets the state on any frame, Flying or not, and no other event
\* changes it.
C4_ResetAsCoded ==
  [][ /\ (prog = "o3" /\ pc = "events" /\ ~(o3.game_over /\ keys'.space) => o3' = o3)
      /\ (prog = "o3" /\ pc = "events" /\ o3.game_over /\ keys'.space
            => \E d \in SpawnDraws : o3' = O3Start(d))
      /\ (SimResetPressed => sim' = SimStart)
      /\ (prog = "sim" /\ pc = "events" /\ ~SimResetPressed => sim' = sim) ]_vars

\* SPACE was held in flight (the rocket is alive and below every spawn
\* point) and the event step is over
C4_Witness ==
  /\ prog = "o3" /\ pc = "update" /\ keys.space
  /\ o3.rocket.alive /\ o3.rocket.y > Fx(HEIGHT \div 2)

\* a rocket as spawn_rocket documents it: on the left, right or top edge,
\* pointing up, at rest in rotation, with a speed in [1, 3] toward the pad centre
FreshRocket(r) ==
  LET dx == Fx(WIDTH \div 2) - r.x
      dy == landing_pad_y - r.y
      v2 == r.vx * r.vx + r.vy * r.vy
  IN  /\ r.angle = 0 /\ r.rotational_velocity = 0 /\ r.alive /\ ~r.landed
      /\ \/ r.x = 0 /\ Fx(50) <= r.y /\ r.y <= Fx(HEIGHT \div 2)
         \/ r.x = Fx(WIDTH) /\ Fx(50) <= r.y /\ r.y <= Fx(HEIGHT \div 2)
         \/ r.y = 0 /\ Fx(50) <= r.x /\ r.x <= Fx(WIDTH - 50)
      /\ Fx(1) * Fx(1) <= v2 /\ v2 <= Fx(3) * Fx(3)
      /\ r.vx * dy = r.vy * dx /\ r.vx * dx >= 0 /\ r.vy * dy >= 0

\* C5: right after a reset is processed, before that frame's integrator
\* step, every field has its initial value: simulator.py is back at its
\* program-start values, o3-mini-high_attempt.py holds a fresh rocket with
\* game_over False and an empty message.
C5_ResetAtomicity ==
  [][ /\ (SimResetPressed => sim' = SimStart)
      /\ (O3ResetPressed /\ o3.game_over
            => FreshRocket(o3'.rocket) /\ ~o3'.game_over /\ o3'.message = "") ]_vars

\* o3-mini-high_attempt.py has just processed a reset: after the first frame
\* a rocket is on the left edge only when it was respawned there
C5_Witness ==
  /\ prog = "o3" /\ pc = "update" /\ frame >= 1 /\ keys.space
  /\ o3.rocket.x = 0 /\ ~o3.game_over /\ o3.message = ""

\* C6: once the status is Landed or Crashed it, the landed flag and the
\* outcome label change on no later tick without a reset, and a ground
\* contact is reported as such, never as out of bounds (both programs).
C6_StatusTerminal ==
  [][ /\ (SimTerminal /\ ~SimResetPressed => sim'.landing_status = sim.landing_status)
      /\ (O3Terminal /\ ~O3ResetPressed => O3Outcome(o3') = O3Outcome(o3))
      /\ (prog = "o3" /\ o3.rocket.alive /\ ~o3'.rocket.alive /\ O3OnGround(o3'.rocket)
            => o3'.message \in {MSG_LANDED, MSG_CRASHED}) ]_vars

\* a landed simulator.py rocket whose angle the key handling has since
\* pushed past the threshold: the status stays "landed!"
C6_Witness ==
  /\ prog = "sim" /\ pc = "events" /\ sim.landing_status = "landed!"
  /\ Abs(sim.rocket_angle) > Fx(ANGLE_THRESHOLD)

\* the ground strip simulator.py draws, the only landing surface it has
SimOverGround(s) == 0 <= s.rocket_x /\ s.rocket_x <= Fx(WIDTH)

\* C2 as stated: no program reports a landing with the rocket's horizontal
\* position outside its landing surface.
C2_PadPrecedence ==
  /\ (prog = "o3" /\ o3.rocket.landed => InPadSpan(o3.rocket))
  /\ (prog = "sim" /\ sim.landing_status = "landed!" => SimOverGround(sim))

\* C2 as amended: in o3-mini-high_attempt.py a ground contact with x outside
\* 350 .. 450 is Crashed whatever the speeds and the angle, and landed is
\* never set outside the pad; simulator.py has no pad and no horizontal test:
\* its outcome on contact is decided by speed and angle alone.
C2_PadPrecedenceO3 ==
  /\ [](prog = "o3" /\ o3.rocket.landed
          => 350000 <= o3.rocket.x /\ o3.rocket.x <= 450000)
  /\ [][ /\ (prog = "o3" /\ o3.rocket.alive /\ ~o3'.rocket.alive
             /\ o3'.rocket.y >= 560000
             /\ (o3'.rocket.x < 350000 \/ o3'.rocket.x > 450000)
               => ~o3'.rocket.landed /\ o3'.message = MSG_CRASHED)
         /\ (prog = "sim" /\ pc = "update" /\ sim.landing_status = "None"
             /\ sim'.landing_status # "None"
               => (sim'.landing_status = "landed!"
                     <=> ~SimTooFast(sim') /\ ~SimTilted(sim'))) ]_vars

\* a contact left of the pad that meets every safe-landing bound, reported
\* as a crash
C2_Witness ==
  /\ prog = "o3" /\ pc = "events" /\ frame = 1
  /\ ~o3.rocket.alive /\ o3.rocket.y >= 560000 /\ o3.rocket.x < 350000
  /\ SafeLanding(o3.rocket) /\ o3.message = MSG_CRASHED

\* C3: in o3-mini-high_attempt.py a tick that leaves the rocket at
\* y >= 560 ends the flight (not alive, game_over), and landed is set exactly
\* when 350 <= x <= 450, |vy| <= 2.5, |vx| <= 2.0, |angle| <= 15 and
\* |rotational_velocity| <= 2.0 hold of the values after the tick, otherwise
\* the outcome is Crashed; the rocket at x = 400, y = 559 with vy = 1.0,
\* vx = 0.5, angle 5 and no rotation is Landed after a tick without keys.
C3_LandingClassification ==
  [][ /\ (prog = "o3" /\ pc = "update" /\ o3.rocket.alive /\ o3'.rocket.y >= 560000
            => /\ ~o3'.rocket.alive /\ o3'.game_over
               /\ o3'.rocket.landed
                    <=> /\ 350000 <= o3'.rocket.x /\ o3'.rocket.x <= 450000
                        /\ Abs(o3'.rocket.vy) <= 2500 /\ Abs(o3'.rocket.vx) <= 2000
                        /\ Abs(o3'.rocket.angle) <= 15000
                        /\ Abs(o3'.rocket.rotational_velocity) <= 2000
               /\ o3'.message = (IF o3'.rocket.landed THEN MSG_LANDED ELSE MSG_CRASHED))
      /\ (prog = "o3" /\ pc = "update" /\ keys = NoKeys
          /\ o3 = O3At(400000, 559000, 500, 1000, 5000, 0)
            => o3'.rocket.landed) ]_vars

\* a landing that meets every bound with equality
C3_Witness ==
  /\ prog = "o3" /\ o3.rocket.landed /\ o3.message = MSG_LANDED
  /\ o3.rocket.x = 350000 /\ o3.rocket.vy = 2500 /\ o3.rocket.vx = 2000
  /\ o3.rocket.angle = 15000 /\ o3.rocket.rotational_velocity = 2000

\* C7: in simulator.py 0 <= fuel <= 100 always, active thrust takes exactly
\* 0.5 per tick, and with fuel = 0 the up key changes neither the fuel nor
\* the velocity (gravity aside).
C7_FuelBounds ==
  /\ [](prog = "sim" => 0 <= sim.fuel /\ sim.fuel <= 100000 /\ sim.fuel % 500 = 0)
  /\ [][ prog = "sim" /\ pc = "update"
           => /\ sim'.fuel = IF keys'.up /\ sim.fuel > 0 THEN sim.fuel - 500 ELSE sim.fuel
              /\ (sim.fuel = 0
                    => /\ sim'.rocket_velocity_x = sim.rocket_velocity_x
                       /\ sim'.rocket_velocity_y = sim.rocket_velocity_y
                            + (IF sim.landing_status = "None" THEN 30 ELSE 0)) ]_vars

\* the up key held through a frame that began with the tank empty
C7_Witness ==
  /\ prog = "sim" /\ pc = "events" /\ frame >= 1 /\ keys.up
  /\ sim.fuel = 0 /\ sim.landing_status = "None"

C9_CrashReasonPrecedence ==
  [][ prog = "sim" /\ pc = "update" /\ sim.landing_status = "None"
        => sim'.landing_status =
             IF sim'.rocket_y + 20000 < 550000 THEN "None"
             ELSE IF sim'.rocket_velocity_x * sim'.rocket_velocity_x
                       + sim'.rocket_velocity_y * sim'.rocket_velocity_y > 4000000
                  THEN "crashed (speed)"
             ELSE IF Abs(sim'.rocket_angle) > 10000 THEN "crashed (angle)"
             ELSE "landed!" ]_vars

\* a contact too fast and too tilted at once, reported as a speed crash
\* (frame 1: the state is the one the contact tick left)
C9_Witness ==
  /\ prog = "sim" /\ pc = "events" /\ frame = 1
  /\ sim.landing_status = "crashed (speed)"
  /\ Abs(sim.rocket_angle) > 10000

\* C10: every flight of simulator.py without a reset ends, and the flight
\* with no key held ends in "crashed (speed)".
C10_FlightEnds ==
  /\ <>(sim.landing_status # "None")
  /\ [](plan.first = NoKeys /\ plan.then = NoKeys /\ sim.landing_status # "None"
          => sim.landing_status = "crashed (speed)")

\* the flight with the up key held throughout has ended with the tank empty
C10_Witness ==
  /\ plan.first = Up /\ plan.then = Up
  /\ sim.landing_status # "None" /\ sim.fuel = 0

====
